---- MODULE Spec2Model ----
(***************************************************************************)
(* TestStrategy (crates/backgambler/src/data/test/test.py): a backtrader   *)
(* strategy that buys after two falling closes, sells HoldBars bars after  *)
(* the last completed order, and keeps at most one order pending.          *)
(*                                                                         *)
(* The strategy is driven by cerebro.run() (test.py:134).  Per bar the     *)
(* engine (1) moves the data feed one bar forward, so len(self) grows by   *)
(* one, (2) runs the broker, which processes the live orders: it changes   *)
(* the position when it executes an order and queues a copy of the order   *)
(* for each status change, (3) calls notify_order for each queued copy, in *)
(* order, (4) calls next().  An order created by next() on bar k is first  *)
(* reported while len(self) = k + 1, and when notify_order hears of an     *)
(* execution the position has already changed.                             *)
(*                                                                         *)
(* The feed is preloaded (cerebro.run() defaults) and self.dataclose[ago]  *)
(* reads array[idx + ago] of the preloaded array, where idx = len(self)-1. *)
(* test.py does not check idx + ago >= 0, so on the first two bars the     *)
(* negative index addresses the array from its end: those reads return the *)
(* closes of the last bars of the feed.  The model keeps the three values  *)
(* next() can read; before the first bar they are the last closes of the   *)
(* feed, which are arbitrary: they may lie above or below any close of the *)
(* first bars.                                                             *)
(***************************************************************************)
EXTENDS Integers, Sequences, FiniteSets, TLC

\* ---- bounds -------------------------------------------------------------
MaxBars == 16
LiveBars == 9
NumCloses == 4
MaxExecuted == 3
NumCodes == 5

\* ---- program constants --------------------------------------------------
HoldBars == 5

Closes == (11 - NumCloses)..10

\* The scenario of the spec: the closes of the first four bars of the feed.
ScenarioCloses == <<10, 9, 8, 7>>

\* Closes of the other bars of a scenario feed: next() only compares closes,
\* so two values below the lowest and two above the highest scenario close
\* give every ordering of three closes, wrapped look-backs included.
ScenarioRange == 5..12

None == "None"
Buy == "Buy"
Sell == "Sell"

Created == "Created"
Submitted == "Submitted"
Accepted == "Accepted"
Completed == "Completed"
Canceled == "Canceled"
Margin == "Margin"
Rejected == "Rejected"

Statuses == {Submitted, Accepted, Completed, Canceled, Margin, Rejected}
Terminal == {Completed, Canceled, Margin, Rejected}
Failed == {Canceled, Margin, Rejected}

VARIABLES
    len,           \* len(self): bars delivered so far
    dataclose,     \* self.dataclose[0], [-1], [-2] as next() reads them
    position,      \* self.position.size (owned by the broker)
    orders,        \* the broker's live orders, each [side, status]
    notifs,        \* copies of orders the broker has queued for notify_order
    order,         \* self.order: None or the side of the order it refers to
    bar_executed,  \* self.bar_executed: <<>> while the attribute is absent
    raised,        \* a callback raised; the run is over
    pc,            \* engine cycle: "notify" after a bar is loaded, "bar" after next()
    issued,        \* order created by the latest callback (None, Buy or Sell)
    notified,      \* status passed to the latest notify_order call, else None
    executed,      \* orders reported Completed so far, counted up to MaxExecuted
    at_issue,      \* position and bar_executed when the pending order was created
    bought_at,     \* len(self) when the broker executed the buy of the open position
    idx,           \* get_a_shares.py: codes the for loop has taken from data.ts_code
    dl_pc,         \* get_a_shares.py: "for", "pro_bar", "to_csv", "sleep" or "done"
    attempted,     \* get_a_shares.py: codes announced with ">>> try to get"
    written,       \* get_a_shares.py: codes whose csv file was written
    errors         \* get_a_shares.py: codes reported with "[ERROR]"

stratvars == <<len, dataclose, position, orders, notifs, order, bar_executed,
               raised, pc, issued, notified, executed, at_issue, bought_at>>

dlvars == <<idx, dl_pc, attempted, written, errors>>

vars == <<stratvars, dlvars>>

\* data.ts_code: the instrument codes, in the order of the query result
TsCodes == [k \in 1..NumCodes |-> NumCodes + 1 - k]

Offsets == {0, -1, -2}

TypeOK ==
    /\ len \in 0..(MaxBars + 1)
    /\ dataclose \in [Offsets -> Closes \cup ScenarioRange]
    /\ position \in -1..2
    /\ orders \in Seq([side : {Buy, Sell}, status : {Created, Submitted, Accepted}])
    /\ notifs \in Seq([side : {Buy, Sell}, status : Statuses])
    /\ order \in {None, Buy, Sell}
    /\ bar_executed \in Seq(0..(MaxBars + 1))
    /\ Len(bar_executed) <= 1
    /\ at_issue \in Seq([position : -1..2, bar_executed : Seq(0..(MaxBars + 1))])
    /\ Len(at_issue) <= 1
    /\ bought_at \in Seq(0..(MaxBars + 1))
    /\ Len(bought_at) <= 1
    /\ raised \in BOOLEAN
    /\ pc \in {"notify", "bar"}
    /\ issued \in {None, Buy, Sell}
    /\ notified \in Statuses \cup {None}
    /\ executed \in 0..MaxExecuted
    /\ idx \in 0..NumCodes
    /\ dl_pc \in {"for", "pro_bar", "to_csv", "sleep", "done"}
    /\ attempted \in Seq(1..NumCodes)
    /\ written \in Seq(1..NumCodes)
    /\ errors \in Seq(1..NumCodes)

\* __init__: self.order = None; bar_executed is not assigned.  Before the
\* first bar the look-backs address the last closes of a feed over S.
InitFeed(S) ==
    /\ len = 0
    /\ dataclose \in [Offsets -> S]
    /\ position = 0
    /\ orders = <<>>
    /\ notifs = <<>>
    /\ order = None
    /\ bar_executed = <<>>
    /\ raised = FALSE
    /\ pc = "bar"
    /\ issued = None
    /\ notified = None
    /\ executed = 0
    /\ at_issue = <<>>
    /\ bought_at = <<>>
    /\ idx = 0
    /\ dl_pc = "for"
    /\ attempted = <<>>
    /\ written = <<>>
    /\ errors = <<>>

Init == InitFeed(Closes)

\* The engine loads the next bar, with close c.
Advance(c) ==
    /\ pc = "bar"
    /\ ~raised
    /\ len < MaxBars
    /\ len' = len + 1
    /\ dataclose' = [a \in Offsets |-> IF a = 0 THEN c ELSE dataclose[a + 1]]
    /\ pc' = "notify"
    /\ issued' = None
    /\ notified' = None
    /\ UNCHANGED <<position, orders, notifs, order, bar_executed, raised, executed,
                   at_issue, bought_at>>
    /\ UNCHANGED dlvars

\* Mutant: the pending-order check is dropped.
OrderPending_dropped == FALSE

\* if self.order:
OrderPending == order # None

\* self.position is truthy iff its size is not 0
InMarket == position # 0

\* Mutant: the first comparison is not strict.
EntryCondition_nonstrict ==
    /\ dataclose[0] <= dataclose[-1]
    /\ dataclose[-1] < dataclose[-2]

\* self.dataclose[0] < self.dataclose[-1] and self.dataclose[-1] < self.dataclose[-2]
EntryCondition ==
    /\ dataclose[0] < dataclose[-1]
    /\ dataclose[-1] < dataclose[-2]

\* Mutant: the hold check is strict.
HoldElapsed_strict == len > bar_executed[1] + HoldBars

\* Mutant: the hold check is an equality.
HoldElapsed_exact == len = bar_executed[1] + HoldBars

\* len(self) >= (self.bar_executed + 5)
HoldElapsed == len >= bar_executed[1] + HoldBars

\* Mutant: the order is sent twice.
Place_twice(side) ==
    /\ orders' = Append(Append(orders, [side |-> side, status |-> Created]),
                        [side |-> side, status |-> Created])
    /\ order' = side
    /\ issued' = side
    /\ UNCHANGED <<bar_executed, raised>>

\* self.order = self.buy() / self.sell(): the broker takes a new market order
Place(side) ==
    /\ orders' = Append(orders, [side |-> side, status |-> Created])
    /\ order' = side
    /\ issued' = side
    /\ UNCHANGED <<bar_executed, raised>>

NoDecision ==
    /\ issued' = None
    /\ UNCHANGED <<orders, order, bar_executed, raised>>

\* Mutant: the exit check is not an else branch; it also runs when the
\* strategy is out of the market and has not bought.
next_exit_unguarded ==
    /\ pc = "notify"
    /\ notifs = <<>>
    /\ ~raised
    /\ pc' = "bar"
    /\ notified' = None
    /\ UNCHANGED <<len, dataclose, position, notifs, executed, bought_at>>
    /\ UNCHANGED dlvars
    /\ IF OrderPending
       THEN NoDecision
       ELSE IF ~InMarket /\ EntryCondition
            THEN Place(Buy)
            ELSE IF bar_executed = <<>>
                 THEN IF InMarket
                      THEN /\ raised' = TRUE
                           /\ issued' = None
                           /\ UNCHANGED <<orders, order, bar_executed>>
                      ELSE NoDecision
                 ELSE IF HoldElapsed THEN Place(Sell) ELSE NoDecision
    /\ at_issue' = IF issued' = None
                   THEN at_issue
                   ELSE <<[position |-> position, bar_executed |-> bar_executed]>>

\* TestStrategy.next
next ==
    /\ pc = "notify"
    /\ notifs = <<>>
    /\ ~raised
    /\ pc' = "bar"
    /\ notified' = None
    /\ UNCHANGED <<len, dataclose, position, notifs, executed, bought_at>>
    /\ UNCHANGED dlvars
    /\ IF OrderPending
       THEN NoDecision
       ELSE IF ~InMarket
            THEN IF EntryCondition THEN Place(Buy) ELSE NoDecision
            ELSE IF bar_executed = <<>>
                 THEN /\ raised' = TRUE
                      /\ issued' = None
                      /\ UNCHANGED <<orders, order, bar_executed>>
                 ELSE IF HoldElapsed THEN Place(Sell) ELSE NoDecision
    /\ at_issue' = IF issued' = None
                   THEN at_issue
                   ELSE <<[position |-> position, bar_executed |-> bar_executed]>>

\* Mutant: bar_executed is recorded on every terminal status.
notify_order_records_failed(o) ==
    IF o.status \in {Submitted, Accepted}
    THEN UNCHANGED <<order, bar_executed>>
    ELSE /\ bar_executed' = <<len>>
         /\ order' = None

\* Mutant: bar_executed is the index of the bar, not the bar count.
notify_order_records_index(o) ==
    IF o.status \in {Submitted, Accepted}
    THEN UNCHANGED <<order, bar_executed>>
    ELSE /\ bar_executed' = IF o.status = Completed THEN <<len - 1>> ELSE bar_executed
         /\ order' = None

\* Mutant: bar_executed is recorded for completed sells only.
notify_order_records_sells(o) ==
    IF o.status \in {Submitted, Accepted}
    THEN UNCHANGED <<order, bar_executed>>
    ELSE /\ bar_executed' = IF o.status = Completed /\ o.side = Sell
                            THEN <<len>> ELSE bar_executed
         /\ order' = None

\* Mutant: only Submitted returns early, Accepted clears the pending order.
notify_order_clears_accepted(o) ==
    IF o.status \in {Submitted}
    THEN UNCHANGED <<order, bar_executed>>
    ELSE /\ bar_executed' = IF o.status = Completed THEN <<len>> ELSE bar_executed
         /\ order' = None

\* Mutant: the pending order is cleared on Completed only.
notify_order_keeps_failed(o) ==
    IF o.status \in {Submitted, Accepted}
    THEN UNCHANGED <<order, bar_executed>>
    ELSE /\ bar_executed' = IF o.status = Completed THEN <<len>> ELSE bar_executed
         /\ order' = IF o.status = Completed THEN None ELSE order

\* Mutant: a completed sell does not clear the pending order.
notify_order_keeps_sell(o) ==
    IF o.status \in {Submitted, Accepted}
    THEN UNCHANGED <<order, bar_executed>>
    ELSE /\ bar_executed' = IF o.status = Completed THEN <<len>> ELSE bar_executed
         /\ order' = IF o.status = Completed /\ o.side = Sell THEN order ELSE None

\* Mutant: a failed order forgets bar_executed.
notify_order_forgets_on_failed(o) ==
    IF o.status \in {Submitted, Accepted}
    THEN UNCHANGED <<order, bar_executed>>
    ELSE /\ bar_executed' = IF o.status = Completed THEN <<len>> ELSE <<>>
         /\ order' = None

\* Mutant: only Accepted returns early, Submitted clears the pending order.
notify_order_clears_submitted(o) ==
    IF o.status \in {Accepted}
    THEN UNCHANGED <<order, bar_executed>>
    ELSE /\ bar_executed' = IF o.status = Completed THEN <<len>> ELSE bar_executed
         /\ order' = None

\* Mutant: bar_executed is recorded in the failure branch, not on Completed.
notify_order_records_in_failed(o) ==
    IF o.status \in {Submitted, Accepted}
    THEN UNCHANGED <<order, bar_executed>>
    ELSE /\ bar_executed' = IF o.status \in Failed THEN <<len>> ELSE bar_executed
         /\ order' = None

\* Mutant: bar_executed is recorded once, while the attribute is absent.
notify_order_records_first(o) ==
    IF o.status \in {Submitted, Accepted}
    THEN UNCHANGED <<order, bar_executed>>
    ELSE /\ bar_executed' = IF o.status = Completed /\ bar_executed = <<>>
                            THEN <<len>> ELSE bar_executed
         /\ order' = None

\* Mutant: Margin returns early, like Submitted and Accepted.
notify_order_returns_on_margin(o) ==
    IF o.status \in {Submitted, Accepted, Margin}
    THEN UNCHANGED <<order, bar_executed>>
    ELSE /\ bar_executed' = IF o.status = Completed THEN <<len>> ELSE bar_executed
         /\ order' = None

\* TestStrategy.notify_order, for an order o whose status the broker has set
notify_order(o) ==
    IF o.status \in {Submitted, Accepted}
    THEN UNCHANGED <<order, bar_executed>>
    ELSE /\ bar_executed' = IF o.status = Completed THEN <<len>> ELSE bar_executed
         /\ order' = None

\* Order of the statuses the broker reports for one order.
CanFollow(old, s) ==
    \/ s = Submitted /\ old = Created
    \/ s = Accepted /\ old = Submitted
    \/ s = Completed /\ old = Accepted
    \/ s \in Failed

RemoveAt(q, i) == [j \in 1..(Len(q) - 1) |-> IF j < i THEN q[j] ELSE q[j + 1]]

\* broker.next(): the broker moves a live order to status s and queues a copy
\* of it for the strategy.  Executing a market order of the default stake 1
\* changes the position here, before notify_order hears of it.  The broker
\* runs before the first notification of the bar is delivered.
BrokerNext(s) ==
    /\ pc = "notify"
    /\ ~raised
    /\ notified = None
    /\ \E i \in 1..Len(orders) :
        LET o == [orders[i] EXCEPT !.status = s] IN
        /\ CanFollow(orders[i].status, s)
        /\ orders' = IF s \in Terminal
                     THEN RemoveAt(orders, i)
                     ELSE [orders EXCEPT ![i] = o]
        /\ position' = IF s = Completed
                       THEN IF o.side = Buy THEN position + 1 ELSE position - 1
                       ELSE position
        /\ bought_at' = IF s = Completed
                        THEN IF o.side = Buy THEN <<len>> ELSE <<>>
                        ELSE bought_at
        /\ notifs' = Append(notifs, o)
    /\ UNCHANGED <<len, dataclose, order, bar_executed, raised, pc, issued,
                   notified, executed, at_issue>>
    /\ UNCHANGED dlvars

\* The engine hands the oldest queued copy, of status s, to notify_order.
BrokerNotify(s) ==
    /\ pc = "notify"
    /\ ~raised
    /\ notifs # <<>>
    /\ Head(notifs).status = s
    /\ notify_order(Head(notifs))
    /\ notifs' = Tail(notifs)
    /\ executed' = IF s = Completed /\ executed < MaxExecuted
                   THEN executed + 1
                   ELSE executed
    /\ notified' = s
    /\ issued' = None
    /\ at_issue' = IF order' = None THEN <<>> ELSE at_issue
    /\ UNCHANGED <<len, dataclose, position, orders, raised, pc, bought_at>>
    /\ UNCHANGED dlvars

Next ==
    \/ \E c \in Closes : Advance(c)
    \/ \E s \in Statuses : BrokerNext(s)
    \/ \E s \in Statuses : BrokerNotify(s)
    \/ next

Spec == Init /\ [][Next]_vars

\* ---- the scenario of the spec: the first closes of the feed are fixed ----
\* The later closes and the last closes of the feed, which the look-backs of
\* the first two bars read, are any of ScenarioRange.
InitScenario == InitFeed(ScenarioRange)

AdvanceScenario ==
    \E c \in ScenarioRange :
        /\ len < Len(ScenarioCloses) => c = ScenarioCloses[len + 1]
        /\ Advance(c)

NextScenario ==
    \/ AdvanceScenario
    \/ \E s \in Statuses : BrokerNext(s)
    \/ \E s \in Statuses : BrokerNotify(s)
    \/ next

SpecScenario == InitScenario /\ [][NextScenario]_vars

\* ---- an endless run: the bar count is kept relative ----------------------
\* Once len has reached LiveBars the engine keeps loading bars; len stays at
\* LiveBars and bar_executed moves back by one instead, down to 0.  The
\* difference len - bar_executed, which is all next() reads of the two, is
\* exact up to LiveBars, which is above HoldBars, and at least LiveBars
\* beyond.
Earlier(b) == [k \in DOMAIN b |-> IF b[k] > 0 THEN b[k] - 1 ELSE 0]

AdvanceLive(c) ==
    /\ pc = "bar"
    /\ ~raised
    /\ IF len < LiveBars
       THEN /\ len' = len + 1
            /\ UNCHANGED <<bar_executed, at_issue, bought_at>>
       ELSE /\ len' = len
            /\ bar_executed' = Earlier(bar_executed)
            /\ bought_at' = Earlier(bought_at)
            /\ at_issue' = [k \in DOMAIN at_issue |->
                              [at_issue[k] EXCEPT !.bar_executed = Earlier(@)]]
    /\ dataclose' = [a \in Offsets |-> IF a = 0 THEN c ELSE dataclose[a + 1]]
    /\ pc' = "notify"
    /\ issued' = None
    /\ notified' = None
    /\ UNCHANGED <<position, orders, notifs, order, raised, executed>>
    /\ UNCHANGED dlvars

NextLive ==
    \/ \E c \in Closes : AdvanceLive(c)
    \/ \E s \in Statuses : BrokerNext(s)
    \/ \E s \in Statuses : BrokerNotify(s)
    \/ next

\* The engine keeps loading bars, delivering what the broker has queued and
\* calling next(); the broker ends up moving an order to every status that
\* it can move it to again and again.
FairEngine ==
    /\ WF_vars(\E c \in Closes : AdvanceLive(c))
    /\ WF_vars(next)
    /\ WF_vars(\E s \in Statuses : BrokerNotify(s))
    /\ SF_vars(BrokerNext(Submitted))
    /\ SF_vars(BrokerNext(Accepted))
    /\ SF_vars(BrokerNext(Completed))

SpecLive == Init /\ [][NextLive]_vars /\ FairEngine

\* ---- scripts/get_a_shares.py: the download loop ---------------------------
\* for code in data.ts_code: the loop takes the next code, or ends
ForNext ==
    /\ dl_pc = "for"
    /\ IF idx < NumCodes
       THEN /\ idx' = idx + 1
            /\ dl_pc' = "pro_bar"
       ELSE /\ idx' = idx
            /\ dl_pc' = "done"
    /\ UNCHANGED <<attempted, written, errors>>
    /\ UNCHANGED stratvars

\* Mutant: the handler leaves the loop.
Caught_stops(code) ==
    /\ errors' = Append(errors, code)
    /\ dl_pc' = "done"

\* except Exception as e: print(f"[ERROR] {e}"), then on to time.sleep(1)
Caught(code) ==
    /\ errors' = Append(errors, code)
    /\ dl_pc' = "sleep"

\* print(">>> try to get"); df = ts.pro_bar(...): returns, or raises
ProBar(ok) ==
    /\ dl_pc = "pro_bar"
    /\ attempted' = Append(attempted, TsCodes[idx])
    /\ IF ok
       THEN /\ dl_pc' = "to_csv"
            /\ errors' = errors
       ELSE Caught(TsCodes[idx])
    /\ UNCHANGED <<idx, written>>
    /\ UNCHANGED stratvars

\* df.to_csv(...): writes the file, or raises (also when df is None)
ToCsv(ok) ==
    /\ dl_pc = "to_csv"
    /\ IF ok
       THEN /\ written' = Append(written, TsCodes[idx])
            /\ dl_pc' = "sleep"
            /\ errors' = errors
       ELSE /\ written' = written
            /\ Caught(TsCodes[idx])
    /\ UNCHANGED <<idx, attempted>>
    /\ UNCHANGED stratvars

\* time.sleep(1), then back to the loop head
Sleep ==
    /\ dl_pc = "sleep"
    /\ dl_pc' = "for"
    /\ UNCHANGED <<idx, attempted, written, errors>>
    /\ UNCHANGED stratvars

NextDownload ==
    \/ ForNext
    \/ \E ok \in BOOLEAN : ProBar(ok)
    \/ \E ok \in BOOLEAN : ToCsv(ok)
    \/ Sleep

\* The script runs on its own: the strategy is not started.
InitDownload ==
    /\ Init
    /\ dataclose = [a \in Offsets |-> 10]

SpecDownload == InitDownload /\ [][NextDownload]_vars

\* Steps of the script taken so far.
Progress ==
    4 * idx + CASE dl_pc = "pro_bar" -> 1
                [] dl_pc = "to_csv" -> 2
                [] dl_pc = "sleep" -> 3
                [] dl_pc = "for" -> 4
                [] dl_pc = "done" -> 5

\* ---- states of the strategy machine --------------------------------------
Flat == position = 0 /\ order = None
EnteringLong == order = Buy
Long == position > 0 /\ order = None
ExitingLong == order = Sell

\* ---- claims ---------------------------------------------------------------

\* C1: next() never creates an order while self.order is set, and the broker
\* never holds more than one live order.
C1_SingleOrder ==
    /\ [](Len(orders) <= 1)
    /\ [][(next /\ order # None) => (orders' = orders /\ issued' = None)]_vars

\* next() has run on a bar while a buy was pending and created nothing.
C1_Witness ==
    /\ pc = "bar"
    /\ order = Buy
    /\ issued = None
    /\ Len(orders) = 1

\* C2: on a bar that has two delivered predecessors, next() creates a buy if
\* and only if the machine is Flat and close[0] < close[-1] < close[-2].
C2_EntryExact ==
    [][(next /\ len >= 3) =>
        (issued' = Buy <=> (/\ position = 0
                            /\ order = None
                            /\ dataclose[0] < dataclose[-1]
                            /\ dataclose[-1] < dataclose[-2]))]_vars

\* A buy created on a bar with two delivered predecessors.
C2_Witness ==
    /\ pc = "bar"
    /\ issued = Buy
    /\ len >= 3

\* C3: in Long with bar_executed = i, next() creates a sell if and only if
\* len(self) >= i + 5; no bar with len(self) >= i + 5 passes in Long without
\* a sell, so the first sell is created on the bar with len(self) = i + 5.
C3_ExitExact ==
    /\ [][(next /\ Long) =>
            (issued' = Sell <=> len >= bar_executed[1] + HoldBars)]_vars
    /\ [](issued = Sell => len >= bar_executed[1] + HoldBars)
    /\ []((pc = "bar" /\ Long) => len < bar_executed[1] + HoldBars)

\* A sell created on the bar exactly HoldBars after the completion.
C3_Witness ==
    /\ issued = Sell
    /\ bar_executed # <<>>
    /\ len = bar_executed[1] + HoldBars

\* C4: from the creation of a buy to its Canceled, Margin or Rejected
\* notification the position and bar_executed do not change: while the buy
\* is pending only the broker's execution of it changes the position and
\* only its Completed notification changes bar_executed, and at the failure
\* both are what they were when the buy was created.  The failure clears
\* self.order and leaves no live order, and the next next() in that Flat
\* state creates a buy whenever the decline condition holds.
C4_RejectedBuyRollsBack ==
    /\ [][\A s \in Failed : (BrokerNotify(s) /\ order = Buy) =>
            (/\ order' = None
             /\ position' = 0
             /\ orders' = <<>>
             /\ bar_executed' = bar_executed
             /\ at_issue = <<[position |-> position',
                              bar_executed |-> bar_executed']>>
             /\ issued' = None)]_vars
    /\ [][((order' = Buy \/ (order = Buy /\ notified' # Completed))
             /\ ~BrokerNext(Completed)) =>
            UNCHANGED <<position, bar_executed>>]_vars
    /\ [][(next /\ Flat /\ dataclose[0] < dataclose[-1]
                /\ dataclose[-1] < dataclose[-2]) => issued' = Buy]_vars

\* A failed first buy: Flat again, and bar_executed still absent.
C4_Witness ==
    /\ notified \in Failed
    /\ Flat
    /\ orders = <<>>
    /\ bar_executed = <<>>

\* C5: with fewer than 3 bars delivered next() creates no order and does not
\* raise.
C5_HistoryGuard ==
    len < 3 => (issued = None /\ orders = <<>> /\ ~raised)

\* C6: with closes 10, 9, 8, 7 on the first four bars no order exists before
\* the third bar (index 2), next() creates a buy on the third bar, and with
\* that buy completed at the first report the sell is created on bar index 7,
\* that is at bar count 8.
C6_ScenarioOriginal ==
    /\ len < 3 => (issued = None /\ orders = <<>> /\ position = 0)
    /\ (pc = "bar" /\ len = 3) => issued = Buy
    /\ (pc = "bar" /\ len = 8 /\ position > 0 /\ bar_executed = <<4>>)
           => issued = Sell

\* C7: a step adds at most one live order, only next() adds one, and a
\* notify_order call creates none.
C7_OneOrderPerBar ==
    /\ [][Len(orders') > Len(orders) =>
            (next /\ Len(orders') = Len(orders) + 1)]_vars
    /\ [][(\E s \in Statuses : BrokerNotify(s)) =>
            (Len(orders') <= Len(orders) /\ issued' = None)]_vars

\* next() has created the one order of its bar.
C7_Witness ==
    /\ pc = "bar"
    /\ issued # None
    /\ Len(orders) = 1
    /\ orders[1].status = Created

\* C8: self.order is set exactly by the next() that creates an order, is
\* cleared only by a terminal notification of that order, and a next() that
\* runs while it is set changes nothing.
C8_PendingLifecycle ==
    /\ [][(order = None /\ order' # None) =>
            (/\ next
             /\ issued' = order'
             /\ orders' = Append(orders, [side |-> order', status |-> Created]))]_vars
    /\ [][issued' # None => (next /\ order = None /\ order' = issued')]_vars
    /\ [][(order # None /\ order' # order) =>
            (/\ order' = None
             /\ notified' \in Terminal
             /\ BrokerNotify(notified')
             /\ Head(notifs).side = order
             /\ notifs' = <<>>
             /\ orders' = <<>>)]_vars
    /\ [][(next /\ order # None) =>
            (/\ issued' = None
             /\ UNCHANGED <<len, dataclose, position, orders, notifs, order,
                            bar_executed, raised>>)]_vars

\* A sell that was accepted stays pending over a later next().
C8_Witness ==
    /\ pc = "bar"
    /\ order = Sell
    /\ issued = None
    /\ Len(orders) = 1
    /\ orders[1].status = Accepted

\* C9: Canceled, Margin and Rejected have the same effect: self.order is
\* cleared, the order has left the broker, nothing else changes and no
\* order is created; position and bar_executed are as they were when the
\* order was created, and while an order is pending only the broker's
\* execution of it changes the position.
C9_UniformFailure ==
    /\ [][\A s \in Failed : BrokerNotify(s) =>
            (/\ order' = None
             /\ orders = <<>>
             /\ issued' = None
             /\ at_issue = <<[position |-> position',
                              bar_executed |-> bar_executed']>>
             /\ UNCHANGED <<len, dataclose, position, orders, bar_executed,
                            raised, pc>>)]_vars
    /\ [][((order' # None \/ (order # None /\ notified' # Completed))
             /\ ~BrokerNext(Completed)) =>
            UNCHANGED <<position, bar_executed>>]_vars

\* A failed sell: Long again.
C9_Witness ==
    /\ notified \in Failed
    /\ Long
    /\ orders = <<>>

\* C10: a Completed notification of the pending buy makes the position
\* positive, clears self.order and sets bar_executed to len(self).
C10_BuyCompletion ==
    [][(BrokerNotify(Completed) /\ order = Buy) =>
        (/\ position' > 0
         /\ order' = None
         /\ orders' = <<>>
         /\ bar_executed' = <<len>>)]_vars

\* A buy has just completed.
C10_Witness ==
    /\ notified = Completed
    /\ Long
    /\ bar_executed = <<len>>

\* C11: a Completed notification of the pending sell makes the position 0
\* and clears self.order; the next() that follows in that Flat state creates
\* a buy exactly when the decline condition holds.
C11_SellCompletion ==
    /\ [][(BrokerNotify(Completed) /\ order = Sell) =>
            (/\ position' = 0
             /\ order' = None
             /\ orders' = <<>>)]_vars
    /\ [][(next /\ Flat /\ notified = Completed) =>
            (issued' = Buy <=> (/\ dataclose[0] < dataclose[-1]
                                /\ dataclose[-1] < dataclose[-2]))]_vars

\* A buy created by the next() that follows a completed sell.
C11_Witness ==
    /\ issued = Buy
    /\ bar_executed = <<len>>

\* C12: a Canceled, Margin or Rejected notification of the pending sell
\* clears self.order and leaves the position positive; the position and
\* bar_executed are then what they were when the sell was created, and
\* while the sell is pending only the broker's execution of it changes the
\* position.
C12_FailedExit ==
    /\ [][\A s \in Failed : (BrokerNotify(s) /\ order = Sell) =>
            (/\ order' = None
             /\ orders' = <<>>
             /\ position' > 0
             /\ position' = position
             /\ bar_executed' = bar_executed
             /\ at_issue = <<[position |-> position',
                              bar_executed |-> bar_executed']>>)]_vars
    /\ [][((order' = Sell \/ (order = Sell /\ notified' # Completed))
             /\ ~BrokerNext(Completed)) =>
            UNCHANGED <<position, bar_executed>>]_vars

\* A rejected sell: Long, with the entry bar still recorded.
C12_Witness ==
    /\ notified = Rejected
    /\ Long
    /\ bar_executed # <<>>
    /\ len > bar_executed[1] + HoldBars

\* C13: a Submitted or Accepted notification leaves self.order, the position
\* and bar_executed unchanged, leaves the broker's live orders as they were
\* and creates no order.
C13_Informational ==
    [][\A s \in {Submitted, Accepted} : BrokerNotify(s) =>
        (/\ UNCHANGED <<order, position, bar_executed, len, dataclose, raised>>
         /\ Len(orders') = Len(orders)
         /\ issued' = None)]_vars

\* An Accepted notification was delivered and the order is still pending.
C13_Witness ==
    /\ notified = Accepted
    /\ order # None
    /\ Len(orders) = 1

C15_BarExecutedSet ==
    /\ (position # 0 /\ order = None) => bar_executed # <<>>
    /\ ~raised

\* next() has run the exit check and decided not to sell.
C15_Witness ==
    /\ pc = "bar"
    /\ Long
    /\ issued = None

\* C16: after a failed sell the hold condition still holds, and the next()
\* that follows creates a new sell.
C16_ResellAfterFailure ==
    /\ []((notified \in Failed /\ position > 0) =>
            (/\ Long
             /\ orders = <<>>
             /\ len >= bar_executed[1] + HoldBars))
    /\ [][(next /\ notified \in Failed /\ position > 0) => issued' = Sell]_vars

\* A sell created again, two bars after the first one.
C16_Witness ==
    /\ issued = Sell
    /\ bar_executed # <<>>
    /\ len = bar_executed[1] + HoldBars + 2

\* C17: with bars that keep coming and a broker that ends up reporting, no
\* order stays pending for ever, every Long state leads to a pending sell,
\* and every position leads back to Flat.
C17_Liveness ==
    /\ (order # None) ~> (order = None)
    /\ Long ~> ExitingLong
    /\ (position > 0) ~> Flat

\* A position that has been closed: the machine is Flat after a sell.
C17_Witness ==
    /\ Flat
    /\ notified = Completed
    /\ executed >= 2

\* C18: every Completed notification overwrites bar_executed with len(self);
\* only the execution of a buy opens the position, and once its Completed
\* notification has been delivered, on the same bar, bar_executed is the bar
\* count of that execution and does not change while the position is held;
\* a sell is created only with len(self) >= bar_executed + 5: in every cycle
\* at least 5 bars after the latest buy completed.
C18_HoldFromLatestBuy ==
    /\ [][BrokerNotify(Completed) => bar_executed' = <<len>>]_vars
    /\ [][(position = 0 /\ position' > 0) =>
            (BrokerNext(Completed) /\ order = Buy /\ bought_at' = <<len>>)]_vars
    /\ []((position > 0 /\ order = Buy) =>
            (bought_at = <<len>> /\ pc = "notify" /\ notifs # <<>>))
    /\ []((position > 0 /\ order # Buy) => bar_executed = bought_at)
    /\ [][(position > 0 /\ position' > 0 /\ order # Buy) =>
            bar_executed' = bar_executed]_vars
    /\ [](issued = Sell => (/\ position > 0
                            /\ len >= bar_executed[1] + HoldBars
                            /\ len >= bought_at[1] + HoldBars))

\* The sell of a second cycle: a buy, a sell and a second buy have completed.
C18_Witness ==
    /\ issued = Sell
    /\ executed = 3

\* C19: the codes are attempted once each in list order; a raise in pro_bar
\* or to_csv is followed by the sleep and the next code; the loop is done
\* only when every code was attempted, some step is possible until then and
\* every step advances, so the loop terminates.
C19_DownloadLoop ==
    /\ [](attempted = SubSeq(TsCodes, 1, Len(attempted)))
    /\ [](Len(attempted) = IF dl_pc = "pro_bar" THEN idx - 1 ELSE idx)
    /\ [](Len(written) + Len(errors) =
            IF dl_pc = "to_csv" THEN idx - 1 ELSE Len(attempted))
    /\ [](dl_pc = "done" => attempted = TsCodes)
    /\ [](dl_pc # "done" => ENABLED NextDownload)
    /\ [][Len(errors') > Len(errors) =>
            (dl_pc' = "sleep" /\ idx' = idx)]_dlvars
    /\ [][Progress' > Progress]_dlvars

\* The loop is over, the first code raised and a later one was written.
C19_Witness ==
    /\ dl_pc = "done"
    /\ errors # <<>>
    /\ errors[1] = TsCodes[1]
    /\ written # <<>>

====
